---- MODULE Spec2Model ----
(***************************************************************************)
(* Trade tracker (src/unnamed/part_000, src/src/tradeTracker.ts): the      *)
(* persisted TrackerData document, the handlers that rewrite it, and the   *)
(* derivations (buildMetrics, renderMetrics, renderSummary,                *)
(* renderWithdrawalSuggestion) computed from it.                           *)
(*                                                                         *)
(* Numbers.  Amounts typed by the user are integers here.  Every quotient  *)
(* the code forms (dailyTargetPct / 100, tradingChange / targetStart,      *)
(* totalGains / totalLosses, rate / 100) is kept as an exact fraction      *)
(* [num, den] in lowest terms, so the model computes over the rationals;   *)
(* the rounding of IEEE doubles is not modelled.                           *)
(* A value of type T | null is <<>> (null) or <<v>>.                       *)
(* A date is a day number of a small calendar; 0 is the empty string.      *)
(***************************************************************************)
EXTENDS Integers, Sequences, FiniteSets, TLC

VARIABLES
    storage,    \* localStorage[STORAGE_KEY]: <<>> when absent, else <<document>>
    rendered,   \* the `data` object the last renderAll was given (captured by closures)
    idClock     \* how many ids generateId has handed out

vars == <<storage, rendered, idClock>>

----------------------------------------------------------------------------
(* Bounds of the model *)

\* generateId is called at most MaxIds times in a run
MaxIds == 3

\* the divisor of a percentage (dailyTargetPct / 100, * 100, rate / 100)
Hundred == 100

\* the calendar: the days a new trading day may be dated
Calendar == {1, 2}
\* the dates the system clock shows when Add Day is clicked
Todays == {1}

\* what the user types, under Spec (the journal: days, closes, cashflows)
CapitalInputs == {<<>>, <<10000>>}
PctInputs == {<<>>, <<10>>, <<-10>>}
StartDateInputs == {1}
GoalInputs == {<<11000>>}
DateInputs == {1, 2}
CloseInputs == {<<>>, <<11000>>}
FlowDateInputs == {1}
FlowTypeInputs == {"deposit", "withdrawal"}
AmountInputs == {<<500>>}

\* what the user types, under SpecCashflow (cashflows only)
CDateInputs == {0, 1, 2}
CAmountInputs == {<<>>, <<300>>, <<500>>}

\* what the user types, under SpecCurve (closes that make the equity curve
\* rise, fall, and touch zero and negative values)
DCapitalInputs == {<<>>, <<10000>>, <<-10000>>}
DPctInputs == {<<10>>}
DCloseInputs == {<<>>, <<-500>>, <<9000>>, <<12000>>}
\* the factors an equity curve is multiplied by
Scales == {2, 3, 7}

\* what the user types, under SpecBackup (documents that are stored when the
\* page loads or that the user imports)
BCapitalInputs == {<<10000>>}
BPctInputs == {<<10>>}
BRuleInputs == {"goal_only"}
BRateInputs == {<<100>>}

\* what the user types, under SpecWithdrawal (closes and the withdrawal policy)
WCapitalInputs == {<<>>, <<10000>>}
WPctInputs == {<<10>>}
WGoalInputs == {<<11000>>}
WCloseInputs == {<<>>, <<11000>>, <<12000>>}
RuleInputs == {"profit_start", "profit_hwm", "goal_only"}
RateInputs == {<<50>>, <<100>>}
BufferInputs == {<<>>, <<500>>}

----------------------------------------------------------------------------
(* Exact fractions *)

Null == <<>>
Some(v) == <<v>>

Abs(x) == IF x < 0 THEN -x ELSE x
Max(a, b) == IF a >= b THEN a ELSE b

RECURSIVE GCD(_, _)
GCD(a, b) == IF b = 0 THEN a ELSE GCD(b, a % b)

\* n / d for d # 0, in lowest terms with a positive denominator
Frac(n, d) ==
    LET g == GCD(Abs(n), Abs(d))
        s == IF d < 0 THEN -1 ELSE 1
    IN  [num |-> s * (n \div g), den |-> s * (d \div g)]

FromInt(n) == [num |-> n, den |-> 1]
FracSub(f, g) == Frac(f.num * g.den - g.num * f.den, f.den * g.den)
FracGeq(f, g) == f.num * g.den >= g.num * f.den
FracGt(f, g) == f.num * g.den > g.num * f.den

----------------------------------------------------------------------------
(* Persistence *)

defaultWithdrawalSettings == [rule |-> "profit_hwm", rate |-> 50, buffer |-> 0]

emptyData ==
    [settings |-> Null, days |-> <<>>, cashflows |-> <<>>,
     withdrawal |-> defaultWithdrawalSettings]

\* What JSON.parse makes of a stored or imported text.  A text is identified
\* with the value it parses to; three texts are no TrackerData object:
Unparsable == [json |-> "unparsable"]   \* JSON.parse throws a SyntaxError
JsonNull == [json |-> "null"]           \* the text null
JsonNumber == [json |-> "number"]       \* the text of a number, such as 5

\* faulty variant: a missing field is read as null, whatever its default is
fieldOr_null(parsed, name, fallback) ==
    IF name \in DOMAIN parsed THEN parsed[name] ELSE Null

\* parsed.<name> ?? fallback
fieldOr(parsed, name, fallback) ==
    IF name \in DOMAIN parsed /\ parsed[name] # Null THEN parsed[name] ELSE fallback

\* the object literal of the try block; a number has no fields
fieldsOf(parsed) ==
    LET object == IF parsed = JsonNumber THEN <<>> ELSE parsed
    IN  [settings |-> fieldOr(object, "settings", Null),
         days |-> fieldOr(object, "days", <<>>),
         cashflows |-> fieldOr(object, "cashflows", <<>>),
         withdrawal |-> fieldOr(object, "withdrawal", defaultWithdrawalSettings)]

\* loadData.  The stored item is <<>> (no item) or <<text>>.  JSON.parse throws
\* on an unparsable text and reading a field of null throws a TypeError: both
\* are caught and give the empty document.  Every value the handlers store is
\* a finite number, a string, a boolean, null, an array or an object of these,
\* which JSON.stringify and JSON.parse give back unchanged.
loadData(store) ==
    IF store = <<>> THEN emptyData
    ELSE LET raw == store[1]
         IN  IF raw = Unparsable \/ raw = JsonNull THEN emptyData
             ELSE fieldsOf(raw)

\* saveData: localStorage.setItem(STORAGE_KEY, JSON.stringify(data))
saveData(data) == <<data>>

----------------------------------------------------------------------------
(* Small helpers of the handlers *)

\* Number.parseFloat(input.value) || 0.  The text of an input is <<v>> when it
\* reads as the number v and <<>> when it does not (parseFloat gives NaN).
parseNumber(input) == IF input = <<>> THEN 0 ELSE input[1]

\* the close typed into a day's input: Number.parseFloat, null unless finite
parseClose(input) == IF input = <<>> THEN Null ELSE Some(input[1])

addDays(date, n) == date + n

getDefaultDayDate(days, startDate, today) ==
    IF Len(days) = 0 /\ startDate # 0 THEN startDate
    ELSE IF ~(\E i \in 1..Len(days) : days[i].date = today) THEN today
    ELSE IF Len(days) = 0 THEN today
    ELSE LET last == days[Len(days)].date
             lastDate == IF last # 0 THEN last ELSE today
         IN  addDays(lastDate, 1)

\* Array.prototype.filter with the predicate "id differs from `id`"
RECURSIVE filterOutId(_, _)
filterOutId(list, id) ==
    IF list = <<>> THEN <<>>
    ELSE IF Head(list).id # id THEN <<Head(list)>> \o filterOutId(Tail(list), id)
    ELSE filterOutId(Tail(list), id)

\* Array.prototype.find by id: the index of the first element with that id, 0 if none
findIndexById(list, id) ==
    IF \E i \in 1..Len(list) : list[i].id = id
    THEN CHOOSE i \in 1..Len(list) :
            list[i].id = id /\ \A j \in 1..(i - 1) : list[j].id # id
    ELSE 0

----------------------------------------------------------------------------
(* Cashflow aggregator *)

\* faulty variant: the type of the cashflow is ignored
signedAmount_unsigned(flow) == flow.amount

signedAmount(flow) == IF flow.type = "deposit" THEN flow.amount ELSE -flow.amount

\* faulty variant: every cashflow dated up to the day is summed
RECURSIVE getNetCashflowForDate_upToDate(_, _)
getNetCashflowForDate_upToDate(cashflows, date) ==
    IF cashflows = <<>> THEN 0
    ELSE LET n == Len(cashflows)
             flow == cashflows[n]
             sum == getNetCashflowForDate_upToDate(SubSeq(cashflows, 1, n - 1), date)
         IN  IF flow.date <= date THEN sum + signedAmount(flow) ELSE sum

\* cashflows.filter(flow.date === date).reduce(sum + signed amount, 0)
RECURSIVE getNetCashflowForDate(_, _)
getNetCashflowForDate(cashflows, date) ==
    IF cashflows = <<>> THEN 0
    ELSE LET n == Len(cashflows)
             flow == cashflows[n]
             sum == getNetCashflowForDate(SubSeq(cashflows, 1, n - 1), date)
         IN  IF flow.date = date THEN sum + signedAmount(flow) ELSE sum

----------------------------------------------------------------------------
(* Daily metrics builder *)

targetEndOf(targetStartValue, dailyTargetPct) ==
    Frac(targetStartValue * (Hundred + dailyTargetPct), Hundred)

\* faulty variant: the day's cashflow is not taken out of the trading change
tradingChangeOf_noCashflow(entry, targetStartValue, netCashflow) ==
    entry.actualClose[1] - targetStartValue

tradingChangeOf(entry, targetStartValue, netCashflow) ==
    entry.actualClose[1] - targetStartValue - netCashflow

tradingPctOf(tradingChange, targetStartValue) ==
    IF targetStartValue > 0
    THEN Frac(tradingChange * Hundred, targetStartValue)
    ELSE FromInt(0)

\* faulty variant: the goal needs more than the target gain
statusOf_strictGoal(tradingChange, targetGainValue) ==
    IF FracGt(FromInt(tradingChange), targetGainValue) THEN "goal"
    ELSE IF tradingChange > 0 THEN "green"
    ELSE IF tradingChange = 0 THEN "neutral"
    ELSE "red"

statusOf(tradingChange, targetGainValue) ==
    IF FracGeq(FromInt(tradingChange), targetGainValue) THEN "goal"
    ELSE IF tradingChange > 0 THEN "green"
    ELSE IF tradingChange = 0 THEN "neutral"
    ELSE "red"

\* faulty variant: a stored close is classified before the no-trade flag is looked at
classify_closeFirst(entry, targetStartValue, targetGainValue, netCashflow) ==
    IF entry.actualClose # Null
    THEN LET tradingChange ==
                 entry.actualClose[1] - targetStartValue - netCashflow
         IN  [tradingChange |-> Some(tradingChange),
              tradingPct |-> Some(IF targetStartValue > 0
                                  THEN Frac(tradingChange * Hundred, targetStartValue)
                                  ELSE FromInt(0)),
              status |-> IF FracGeq(FromInt(tradingChange), targetGainValue)
                         THEN "goal"
                         ELSE IF tradingChange > 0 THEN "green"
                         ELSE IF tradingChange = 0 THEN "neutral"
                         ELSE "red"]
    ELSE IF entry.noTrade
    THEN [tradingChange |-> Some(0), tradingPct |-> Some(FromInt(0)),
          status |-> "neutral"]
    ELSE [tradingChange |-> Null, tradingPct |-> Null, status |-> "pending"]

\* the classification of one day: tradingChange, tradingPct and status
classify(entry, targetStartValue, targetGainValue, netCashflow) ==
    IF entry.noTrade
    THEN [tradingChange |-> Some(0), tradingPct |-> Some(FromInt(0)),
          status |-> "neutral"]
    ELSE IF entry.actualClose # Null
    THEN LET tradingChange ==
                 tradingChangeOf(entry, targetStartValue, netCashflow)
         IN  [tradingChange |-> Some(tradingChange),
              tradingPct |-> Some(tradingPctOf(tradingChange, targetStartValue)),
              status |-> statusOf(tradingChange, targetGainValue)]
    ELSE [tradingChange |-> Null, tradingPct |-> Null, status |-> "pending"]

\* faulty variant: the no-trade flag is looked at before the stored close
rollRunningStart_noTradeFirst(entry, targetStartValue, netCashflow) ==
    IF entry.noTrade THEN targetStartValue + netCashflow
    ELSE IF entry.actualClose # Null THEN entry.actualClose[1]
    ELSE targetStartValue

\* faulty variant: a pending day rolls its cashflow into the base, like a no-trade day
rollRunningStart_pendingRolls(entry, targetStartValue, netCashflow) ==
    IF entry.actualClose # Null THEN entry.actualClose[1]
    ELSE targetStartValue + netCashflow

\* runningStart after the day
rollRunningStart(entry, targetStartValue, netCashflow) ==
    IF entry.actualClose # Null THEN entry.actualClose[1]
    ELSE IF entry.noTrade THEN targetStartValue + netCashflow
    ELSE targetStartValue

\* faulty variant: the equity of a day without a close always includes the
\* day's cashflow
equityValueOf_cashflowAlways(entry, targetStartValue, netCashflow) ==
    IF entry.actualClose # Null THEN entry.actualClose[1]
    ELSE targetStartValue + netCashflow

\* entry.actualClose ?? (entry.noTrade ? targetStartValue + netCashflow : targetStartValue)
equityValueOf(entry, targetStartValue, netCashflow) ==
    IF entry.actualClose # Null THEN entry.actualClose[1]
    ELSE IF entry.noTrade THEN targetStartValue + netCashflow
    ELSE targetStartValue

\* faulty variant: the 0-based position is emitted
dayIndexOf_zeroBased(index) == index

dayIndexOf(index) == index + 1

\* the record pushed for the entry at (0-based) index, given runningStart
dayMetrics(data, entry, index, runningStart) ==
    LET targetStartValue == runningStart
        targetEndValue ==
            targetEndOf(targetStartValue, data.settings[1].dailyTargetPct)
        targetGainValue == FracSub(targetEndValue, FromInt(targetStartValue))
        netCashflow == getNetCashflowForDate(data.cashflows, entry.date)
        c == classify(entry, targetStartValue, targetGainValue, netCashflow)
    IN  [entry |-> entry,
         dayIndex |-> dayIndexOf(index),
         targetStart |-> targetStartValue,
         targetEnd |-> targetEndValue,
         targetGain |-> targetGainValue,
         netCashflow |-> netCashflow,
         tradingChange |-> c.tradingChange,
         tradingPct |-> c.tradingPct,
         status |-> c.status,
         equityValue |-> equityValueOf(entry, targetStartValue, netCashflow)]

\* data.days.forEach from position `index` on
RECURSIVE forEachDay(_, _, _, _)
forEachDay(data, index, runningStart, metrics) ==
    IF index >= Len(data.days) THEN metrics
    ELSE LET entry == data.days[index + 1]
             m == dayMetrics(data, entry, index, runningStart)
         IN  forEachDay(data, index + 1,
                        rollRunningStart(entry, m.targetStart, m.netCashflow),
                        Append(metrics, m))

\* faulty variant: absent settings are read as a starting capital and a
\* daily target of 0
buildMetrics_zeroSettings(data) ==
    IF data.settings = Null
    THEN forEachDay([data EXCEPT !.settings =
                        Some([startingCapital |-> 0, dailyTargetPct |-> 0,
                              startDate |-> 0, targetGoal |-> 0])],
                    0, 0, <<>>)
    ELSE forEachDay(data, 0, data.settings[1].startingCapital, <<>>)

\* faulty variant: the fold starts from the close of the last day, when it
\* has one, and not from the starting capital
buildMetrics_fromLastClose(data) ==
    IF data.settings = Null THEN <<>>
    ELSE LET n == Len(data.days)
             start == IF n > 0 /\ data.days[n].actualClose # Null
                      THEN data.days[n].actualClose[1]
                      ELSE data.settings[1].startingCapital
         IN  forEachDay(data, 0, start, <<>>)

buildMetrics(data) ==
    IF data.settings = Null THEN <<>>
    ELSE forEachDay(data, 0, data.settings[1].startingCapital, <<>>)

----------------------------------------------------------------------------
(* Win/loss statistics (renderMetrics) *)

POSITIVE_INFINITY == [num |-> 1, den |-> 0]

\* metric.tradingChange ?? 0
changeOrZero(metric) ==
    IF metric.tradingChange = Null THEN 0 ELSE metric.tradingChange[1]

isCompleted(metric) == metric.tradingChange # Null
isGreen(metric) == changeOrZero(metric) > 0
isRed(metric) == changeOrZero(metric) < 0

completed(metrics) == SelectSeq(metrics, isCompleted)
greens(metrics) == SelectSeq(completed(metrics), isGreen)
reds(metrics) == SelectSeq(completed(metrics), isRed)

\* greens.reduce((sum, metric) => sum + Math.max(metric.tradingChange ?? 0, 0), 0)
RECURSIVE sumGains(_)
sumGains(list) ==
    IF list = <<>> THEN 0
    ELSE sumGains(SubSeq(list, 1, Len(list) - 1))
         + Max(changeOrZero(list[Len(list)]), 0)

\* reds.reduce((sum, metric) => sum + Math.abs(metric.tradingChange ?? 0), 0)
RECURSIVE sumLosses(_)
sumLosses(list) ==
    IF list = <<>> THEN 0
    ELSE sumLosses(SubSeq(list, 1, Len(list) - 1))
         + Abs(changeOrZero(list[Len(list)]))

totalGains(metrics) == sumGains(greens(metrics))
totalLosses(metrics) == sumLosses(reds(metrics))

\* faulty variant: gains without losses are not reported as infinite
profitFactorOf_noInfinity(gains, losses) ==
    IF losses > 0 THEN Frac(gains, losses) ELSE FromInt(0)

profitFactorOf(gains, losses) ==
    IF losses > 0 THEN Frac(gains, losses)
    ELSE IF gains > 0 THEN POSITIVE_INFINITY
    ELSE FromInt(0)

profitFactor(metrics) == profitFactorOf(totalGains(metrics), totalLosses(metrics))

\* faulty variant: pending days are counted in the denominator
winRate_allDays(metrics) ==
    IF Len(metrics) > 0
    THEN Frac(Len(greens(metrics)) * Hundred, Len(metrics))
    ELSE FromInt(0)

\* completed.length > 0 ? (greens.length / completed.length) * 100 : 0
winRate(metrics) ==
    IF Len(completed(metrics)) > 0
    THEN Frac(Len(greens(metrics)) * Hundred, Len(completed(metrics)))
    ELSE FromInt(0)

\* one of the two backward loops: the number of iterations before the break,
\* from (1-based) position i down
RECURSIVE streakDownFrom(_, _, _)
streakDownFrom(metrics, i, statuses) ==
    IF i < 1 THEN 0
    ELSE IF metrics[i].status \in statuses
    THEN 1 + streakDownFrom(metrics, i - 1, statuses)
    ELSE 0

\* faulty variant: the loop runs forward from the first day
RECURSIVE streakUpFrom(_, _, _)
streakUpFrom(metrics, i, statuses) ==
    IF i > Len(metrics) THEN 0
    ELSE IF metrics[i].status \in statuses
    THEN 1 + streakUpFrom(metrics, i + 1, statuses)
    ELSE 0

\* faulty variant: the goal streak is counted from the oldest day
goalStreak_fromStart(metrics) == streakUpFrom(metrics, 1, {"goal"})

goalStreak(metrics) == streakDownFrom(metrics, Len(metrics), {"goal"})

greenStreak(metrics) == streakDownFrom(metrics, Len(metrics), {"goal", "green"})

----------------------------------------------------------------------------
(* Current equity and the withdrawal recommender *)

\* faulty variant: find without the reverse: the first metric with a close
lastActual_first(metrics) ==
    IF \E i \in 1..Len(metrics) : metrics[i].entry.actualClose # Null
    THEN CHOOSE i \in 1..Len(metrics) :
            /\ metrics[i].entry.actualClose # Null
            /\ \A j \in 1..(i - 1) : metrics[j].entry.actualClose = Null
    ELSE 0

\* metrics.slice().reverse().find(metric.entry.actualClose !== null):
\* the index of the last metric with a close, 0 when there is none
lastActual(metrics) ==
    IF \E i \in 1..Len(metrics) : metrics[i].entry.actualClose # Null
    THEN CHOOSE i \in 1..Len(metrics) :
            /\ metrics[i].entry.actualClose # Null
            /\ \A j \in (i + 1)..Len(metrics) : metrics[j].entry.actualClose = Null
    ELSE 0

\* lastActual?.entry.actualClose ?? data.settings.startingCapital
closeOrCapital(data, metrics, k) ==
    IF k # 0 THEN metrics[k].entry.actualClose[1]
    ELSE data.settings[1].startingCapital

\* renderSummary
currentEquity(data, metrics) == closeOrCapital(data, metrics, lastActual(metrics))

\* renderWithdrawalSuggestion
equity(data, metrics) == closeOrCapital(data, metrics, lastActual(metrics))

RECURSIVE highWaterMarkFrom(_, _)
highWaterMarkFrom(mark, metrics) ==
    IF metrics = <<>> THEN mark
    ELSE LET metric == Head(metrics)
         IN  highWaterMarkFrom(
                 IF metric.entry.actualClose # Null
                 THEN Max(mark, metric.entry.actualClose[1])
                 ELSE mark,
                 Tail(metrics))

\* faulty variant: the closes are not folded into the mark
highWaterMark_capitalOnly(data, metrics) == data.settings[1].startingCapital

highWaterMark(data, metrics) ==
    highWaterMarkFrom(data.settings[1].startingCapital, metrics)

\* faulty variant: the profit_hwm threshold is not floored at the starting capital
withdrawalBase_noFloor(rule, equityValue, startingCapital, mark, buffer, targetGoal) ==
    CASE rule = "profit_start" -> Max(0, equityValue - startingCapital)
      [] rule = "profit_hwm" -> Max(0, equityValue - (mark - buffer))
      [] rule = "goal_only" -> Max(0, equityValue - targetGoal)
      [] OTHER -> 0

\* the switch on data.withdrawal.rule
withdrawalBase(rule, equityValue, startingCapital, mark, buffer, targetGoal) ==
    CASE rule = "profit_start" -> Max(0, equityValue - startingCapital)
      [] rule = "profit_hwm" ->
            LET threshold == Max(startingCapital, mark - buffer)
            IN  Max(0, equityValue - threshold)
      [] rule = "goal_only" -> Max(0, equityValue - targetGoal)
      [] OTHER -> 0

base(data, metrics) ==
    withdrawalBase(data.withdrawal.rule, equity(data, metrics),
                   data.settings[1].startingCapital, highWaterMark(data, metrics),
                   data.withdrawal.buffer, data.settings[1].targetGoal)

\* base * rate, with rate = data.withdrawal.rate / 100; 0 without settings
suggestion(data, metrics) ==
    IF data.settings = Null THEN FromInt(0)
    ELSE Frac(base(data, metrics) * data.withdrawal.rate, Hundred)

----------------------------------------------------------------------------
(* Max drawdown (computeMaxDrawdown, renderSummary) *)

\* faulty variant: the peak stays at the first value
peakAfter_fixed(peak, value) == peak

\* if (value > peak) peak = value
peakAfter(peak, value) == IF value > peak THEN value ELSE peak

\* faulty variant: the fall is not divided by the peak
drawdownOf_absolute(peak, value) ==
    IF peak > 0 THEN FromInt(peak - value) ELSE FromInt(0)

\* peak > 0 ? (peak - value) / peak : 0
drawdownOf(peak, value) ==
    IF peak > 0 THEN Frac(peak - value, peak) ELSE FromInt(0)

\* values.forEach from (1-based) position i on
RECURSIVE drawdownLoop(_, _, _, _)
drawdownLoop(values, i, peak, maxDrawdown) ==
    IF i > Len(values) THEN maxDrawdown
    ELSE LET newPeak == peakAfter(peak, values[i])
             drawdown == drawdownOf(newPeak, values[i])
         IN  drawdownLoop(values, i + 1, newPeak,
                          IF FracGt(drawdown, maxDrawdown)
                          THEN drawdown ELSE maxDrawdown)

computeMaxDrawdown(values) ==
    LET peak == IF Len(values) > 0 THEN values[1] ELSE 0
        maxDrawdown == drawdownLoop(values, 1, peak, FromInt(0))
    IN  Frac(maxDrawdown.num * Hundred, maxDrawdown.den)

\* [data.settings.startingCapital, ...metrics.map((metric) => metric.equityValue)]
equityCurve(data, metrics) ==
    <<data.settings[1].startingCapital>>
    \o [i \in 1..Len(metrics) |-> metrics[i].equityValue]

\* renderSummary: the drawdown figure, 0 without settings
maxDrawdown(data, metrics) ==
    IF data.settings = Null THEN FromInt(0)
    ELSE computeMaxDrawdown(equityCurve(data, metrics))

----------------------------------------------------------------------------
(* The target figures of the summary and of the target panel *)

\* renderSummary: currentTarget ? currentTarget.targetEnd : startingCapital
summaryTargetEnd(data, metrics) ==
    IF data.settings = Null THEN FromInt(0)
    ELSE IF Len(metrics) > 0 THEN metrics[Len(metrics)].targetEnd
    ELSE FromInt(data.settings[1].startingCapital)

\* renderTargetPanel: the target end shown for the current day
panelTargetEnd(data, metrics) ==
    IF data.settings = Null THEN FromInt(0)
    ELSE IF Len(metrics) > 0 THEN metrics[Len(metrics)].targetEnd
    ELSE targetEndOf(data.settings[1].startingCapital,
                     data.settings[1].dailyTargetPct)

\* renderSummary: the four figures of the summary
summaryFigures(data, metrics) ==
    IF data.settings = Null
    THEN [equity |-> 0, targetEnd |-> FromInt(0), targetPct |-> 0,
          drawdown |-> FromInt(0)]
    ELSE [equity |-> currentEquity(data, metrics),
          targetEnd |-> summaryTargetEnd(data, metrics),
          targetPct |-> data.settings[1].dailyTargetPct,
          drawdown |-> maxDrawdown(data, metrics)]

\* renderTargetPanel: the day number and the three figures of the panel
targetPanel(data, metrics) ==
    IF data.settings = Null
    THEN [day |-> 0, targetStart |-> 0, targetEnd |-> FromInt(0),
          targetGain |-> FromInt(0)]
    ELSE IF Len(metrics) = 0
    THEN LET startingCapital == data.settings[1].startingCapital
             targetEndValue ==
                 targetEndOf(startingCapital, data.settings[1].dailyTargetPct)
         IN  [day |-> 1, targetStart |-> startingCapital,
              targetEnd |-> targetEndValue,
              targetGain |-> FracSub(targetEndValue, FromInt(startingCapital))]
    ELSE LET currentMetric == metrics[Len(metrics)]
         IN  [day |-> Len(metrics), targetStart |-> currentMetric.targetStart,
              targetEnd |-> currentMetric.targetEnd,
              targetGain |-> currentMetric.targetGain]

----------------------------------------------------------------------------
(* The handlers.  `rendered` is the data object the closures of the last      *)
(* render captured; its day and cashflow objects are the `entry` and `flow`   *)
(* of those closures.  renderDays builds a card per metric, so the per-day    *)
(* inputs exist only when the rendered document has settings.                 *)

Init ==
    /\ storage = <<>>
    /\ rendered = loadData(<<>>)
    /\ idClock = 0

\* startingCapital * 0.1 (the inputs of the model are multiples of 10)
tenthOf(startingCapital) == startingCapital \div 10

\* faulty variant: every submission sets the buffer to a tenth of the capital
SetupSubmit_resetsBuffer(capitalIn, pctIn, startDate, goalIn) ==
    LET data == loadData(storage)
        settings == [startingCapital |-> parseNumber(capitalIn),
                     dailyTargetPct |-> parseNumber(pctIn),
                     startDate |-> startDate,
                     targetGoal |-> parseNumber(goalIn)]
        saved == [data EXCEPT !.settings = Some(settings),
                              !.withdrawal.buffer = tenthOf(settings.startingCapital)]
    IN  /\ storage' = saveData(saved)
        /\ rendered' = saved
        /\ UNCHANGED idClock

\* setupForm "submit"
SetupSubmit(capitalIn, pctIn, startDate, goalIn) ==
    LET data == loadData(storage)
        settings == [startingCapital |-> parseNumber(capitalIn),
                     dailyTargetPct |-> parseNumber(pctIn),
                     startDate |-> startDate,
                     targetGoal |-> parseNumber(goalIn)]
        buffer == IF data.withdrawal.buffer = 0
                  THEN tenthOf(settings.startingCapital)
                  ELSE data.withdrawal.buffer
        saved == [data EXCEPT !.settings = Some(settings),
                              !.withdrawal.buffer = buffer]
    IN  /\ storage' = saveData(saved)
        /\ rendered' = saved
        /\ UNCHANGED idClock

\* resetAllButton "click"
ResetAll ==
    /\ storage' = <<>>
    /\ rendered' = loadData(<<>>)
    /\ UNCHANGED idClock

\* addDayButton "click"
AddDay(today) ==
    LET data == loadData(storage)
    IN  IF data.settings = Null
        THEN UNCHANGED vars
        ELSE LET newDay ==
                     [id |-> idClock + 1,
                      date |-> getDefaultDayDate(data.days,
                                                 data.settings[1].startDate, today),
                      actualClose |-> Null,
                      noTrade |-> FALSE]
                 saved == [data EXCEPT !.days = Append(@, newDay)]
             IN  /\ idClock < MaxIds
                 /\ newDay.date \in Calendar
                 /\ idClock' = idClock + 1
                 /\ storage' = saveData(saved)
                 /\ rendered' = saved

\* faulty variant: the edited document is saved but the page is not rendered again
updateEntry_noRender(i, field, value) ==
    LET data == loadData(storage)
        k == findIndexById(data.days, rendered.days[i].id)
    IN  /\ k # 0
        /\ storage' = saveData([data EXCEPT !.days[k][field] = value])
        /\ UNCHANGED <<rendered, idClock>>

\* the body shared by the three per-day inputs: the closure's entry object is
\* assigned first, then the reloaded document's day with the same id
updateEntry(i, field, value) ==
    LET entry == [rendered.days[i] EXCEPT ![field] = value]
        data == loadData(storage)
        k == findIndexById(data.days, entry.id)
    IN  IF k # 0
        THEN LET saved == [data EXCEPT !.days[k][field] = value]
             IN  /\ storage' = saveData(saved)
                 /\ rendered' = saved
                 /\ UNCHANGED idClock
        ELSE /\ rendered' = [rendered EXCEPT !.days[i] = entry]
             /\ UNCHANGED <<storage, idClock>>

\* buildDateInput "change"
ChangeDate(i, value) ==
    /\ rendered.settings # Null
    /\ i \in 1..Len(rendered.days)
    /\ updateEntry(i, "date", value)

\* buildActualInput "change" (the input is disabled on a no-trade day)
ChangeActual(i, input) ==
    /\ rendered.settings # Null
    /\ i \in 1..Len(rendered.days)
    /\ ~rendered.days[i].noTrade
    /\ updateEntry(i, "actualClose", parseClose(input))

\* buildNoTradeToggle "change"
ToggleNoTrade(i) ==
    /\ rendered.settings # Null
    /\ i \in 1..Len(rendered.days)
    /\ updateEntry(i, "noTrade", ~rendered.days[i].noTrade)

\* "Remove Day" click: works on the captured data object
RemoveDay(i) ==
    /\ rendered.settings # Null
    /\ i \in 1..Len(rendered.days)
    /\ LET saved == [rendered EXCEPT
                        !.days = filterOutId(@, rendered.days[i].id)]
       IN  /\ storage' = saveData(saved)
           /\ rendered' = saved
           /\ UNCHANGED idClock

\* cashflowForm "submit"
CashflowSubmit(date, type, amountIn) ==
    LET data == loadData(storage)
        flow == [id |-> idClock + 1, date |-> date, type |-> type,
                 amount |-> parseNumber(amountIn)]
        saved == [data EXCEPT !.cashflows = Append(@, flow)]
    IN  /\ idClock < MaxIds
        /\ idClock' = idClock + 1
        /\ storage' = saveData(saved)
        /\ rendered' = saved

\* cashflow "Remove" click: works on the captured data object
RemoveCashflow(j) ==
    /\ j \in 1..Len(rendered.cashflows)
    /\ LET saved == [rendered EXCEPT
                        !.cashflows = filterOutId(@, rendered.cashflows[j].id)]
       IN  /\ storage' = saveData(saved)
           /\ rendered' = saved
           /\ UNCHANGED idClock

\* saveWithdrawSettings "click"
SaveWithdrawSettingsClick(rule, rateIn, bufferIn) ==
    LET data == loadData(storage)
        saved == [data EXCEPT !.withdrawal =
                     [rule |-> rule, rate |-> parseNumber(rateIn),
                      buffer |-> parseNumber(bufferIn)]]
    IN  /\ storage' = saveData(saved)
        /\ rendered' = saved
        /\ UNCHANGED idClock

\* faulty variant: the backup is written without the withdrawal policy
exportDocument_noWithdrawal(store) ==
    LET data == loadData(store)
    IN  [settings |-> data.settings, days |-> data.days,
         cashflows |-> data.cashflows]

\* exportButton "click": the text of the downloaded file,
\* JSON.stringify(loadData(), null, 2)
exportDocument(store) == loadData(store)

\* reader.onload: what is stored after the text of the file was read.
\* JSON.parse throws on an unparsable text before saveData is reached; any
\* other text is parsed and saved as it is.
storageAfterImport(store, file) ==
    IF file = Unparsable THEN store ELSE saveData(file)

\* importInput "change", with the file read: on a SyntaxError the alert is
\* shown and nothing else happens; otherwise saveData(parsed), then
\* renderAll(loadData())
ImportFile(file) ==
    IF file = Unparsable
    THEN UNCHANGED vars
    ELSE /\ storage' = storageAfterImport(storage, file)
         /\ rendered' = loadData(storage')
         /\ UNCHANGED idClock

\* a filter button "click": renderAll(loadData())
FilterClick ==
    /\ rendered' = loadData(storage)
    /\ UNCHANGED <<storage, idClock>>

Next ==
    \/ \E c \in CapitalInputs, p \in PctInputs, d \in StartDateInputs,
          g \in GoalInputs : SetupSubmit(c, p, d, g)
    \/ ResetAll
    \/ \E today \in Todays : AddDay(today)
    \/ \E i \in 1..MaxIds, v \in DateInputs : ChangeDate(i, v)
    \/ \E i \in 1..MaxIds, v \in CloseInputs : ChangeActual(i, v)
    \/ \E i \in 1..MaxIds : ToggleNoTrade(i)
    \/ \E i \in 1..MaxIds : RemoveDay(i)
    \/ \E d \in FlowDateInputs, t \in FlowTypeInputs, a \in AmountInputs :
           CashflowSubmit(d, t, a)
    \/ \E j \in 1..MaxIds : RemoveCashflow(j)
    \/ FilterClick

Spec == Init /\ [][Next]_vars

\* The user only files and removes cashflows.
NextCashflow ==
    \/ \E d \in CDateInputs, t \in FlowTypeInputs, a \in CAmountInputs :
           CashflowSubmit(d, t, a)
    \/ \E j \in 1..MaxIds : RemoveCashflow(j)

SpecCashflow == Init /\ [][NextCashflow]_vars

\* The user configures, records closes and edits the withdrawal policy.
NextWithdrawal ==
    \/ \E c \in WCapitalInputs, p \in WPctInputs, d \in StartDateInputs,
          g \in WGoalInputs : SetupSubmit(c, p, d, g)
    \/ ResetAll
    \/ \E today \in Todays : AddDay(today)
    \/ \E i \in 1..MaxIds, v \in WCloseInputs : ChangeActual(i, v)
    \/ \E i \in 1..MaxIds : RemoveDay(i)
    \/ \E r \in RuleInputs, a \in RateInputs, b \in BufferInputs :
           SaveWithdrawSettingsClick(r, a, b)

SpecWithdrawal == Init /\ [][NextWithdrawal]_vars

\* The user configures and records closes of any sign.
NextCurve ==
    \/ \E c \in DCapitalInputs, p \in DPctInputs, d \in StartDateInputs,
          g \in GoalInputs : SetupSubmit(c, p, d, g)
    \/ \E today \in Todays : AddDay(today)
    \/ \E i \in 1..MaxIds, v \in DateInputs : ChangeDate(i, v)
    \/ \E i \in 1..MaxIds, v \in DCloseInputs : ChangeActual(i, v)
    \/ \E i \in 1..MaxIds : RemoveDay(i)

SpecCurve == Init /\ [][NextCurve]_vars

\* Documents found in storage or in an imported file.  Their ids are outside
\* the range generateId hands out in the model.
OrphanDocument ==
    [settings |-> Null,
     days |-> <<[id |-> 101, date |-> 1, actualClose |-> Some(11000),
                 noTrade |-> FALSE],
                [id |-> 102, date |-> 2, actualClose |-> Null,
                 noTrade |-> TRUE]>>,
     cashflows |-> <<[id |-> 103, date |-> 1, type |-> "deposit",
                      amount |-> 500]>>,
     withdrawal |-> [rule |-> "profit_start", rate |-> 100, buffer |-> 500]]

\* a document as src/src/tradeTracker.ts saves it: no withdrawal policy
LegacyDocument ==
    [settings |-> Some([startingCapital |-> 10000, dailyTargetPct |-> 10,
                        startDate |-> 1, targetGoal |-> 11000]),
     days |-> <<[id |-> 101, date |-> 1, actualClose |-> Some(11000),
                 noTrade |-> FALSE]>>,
     cashflows |-> <<>>]

DaysOnlyDocument ==
    [days |-> <<[id |-> 101, date |-> 1, actualClose |-> Null,
                 noTrade |-> FALSE]>>]

ImportFiles ==
    {Unparsable, JsonNull, JsonNumber, OrphanDocument, LegacyDocument,
     DaysOnlyDocument}

StoredItems == {<<>>} \cup {<<file>> : file \in ImportFiles}

\* the page is loaded with whatever the storage holds
InitStored ==
    /\ storage \in StoredItems
    /\ rendered = loadData(storage)
    /\ idClock = 0

\* The user configures, journals, and exports and imports backups.
NextBackup ==
    \/ \E c \in BCapitalInputs, p \in BPctInputs, d \in StartDateInputs,
          g \in GoalInputs : SetupSubmit(c, p, d, g)
    \/ ResetAll
    \/ \E today \in Todays : AddDay(today)
    \/ \E d \in FlowDateInputs, a \in AmountInputs :
           CashflowSubmit(d, "withdrawal", a)
    \/ \E r \in BRuleInputs, a \in BRateInputs, b \in BufferInputs :
           SaveWithdrawSettingsClick(r, a, b)
    \/ \E file \in ImportFiles \cup {exportDocument(storage)} : ImportFile(file)

SpecBackup == InitStored /\ [][NextBackup]_vars

----------------------------------------------------------------------------
(* src/tradeTracker.ts: the page with the history table.  Its document has  *)
(* no withdrawal policy.  A row of the history table edits a day by id      *)
(* (updateDay), removes it (removeDay) or makes it the current day          *)
(* (setCurrentDay); the card of the current day, the last of the list,      *)
(* adds cashflows on that day's date.  The history filter stays "all", so   *)
(* every day has a row.                                                     *)

TCapitalInputs == {<<10000>>}
TPctInputs == {<<10>>}
TDateInputs == {1, 2}
TCloseInputs == {<<>>, <<11000>>}
TAmountInputs == {<<>>, <<500>>}

trackerDefault == [settings |-> Null, days |-> <<>>, cashflows |-> <<>>]

\* loadData of tradeTracker.ts
trackerLoadData(store) ==
    IF store = <<>> THEN trackerDefault
    ELSE LET raw == store[1]
         IN  IF raw = Unparsable \/ raw = JsonNull THEN trackerDefault
             ELSE LET object == IF raw = JsonNumber THEN <<>> ELSE raw
                  IN  [settings |-> fieldOr(object, "settings", Null),
                       days |-> fieldOr(object, "days", <<>>),
                       cashflows |-> fieldOr(object, "cashflows", <<>>)]

\* initialData = loadData(); renderAll(initialData), with nothing stored
TrackerInit ==
    /\ storage = <<>>
    /\ rendered = trackerLoadData(<<>>)
    /\ idClock = 0

\* setupForm "submit"
TrackerSetupSubmit(capitalIn, pctIn, startDate, goalIn) ==
    LET data == trackerLoadData(storage)
        settings == [startingCapital |-> parseNumber(capitalIn),
                     dailyTargetPct |-> parseNumber(pctIn),
                     startDate |-> startDate,
                     targetGoal |-> parseNumber(goalIn)]
        saved == [data EXCEPT !.settings = Some(settings)]
    IN  /\ storage' = saveData(saved)
        /\ rendered' = saved
        /\ UNCHANGED idClock

\* resetAllButton "click"
TrackerResetAll ==
    /\ storage' = <<>>
    /\ rendered' = trackerLoadData(<<>>)
    /\ UNCHANGED idClock

\* addDayButton "click"
TrackerAddDay(today) ==
    LET data == trackerLoadData(storage)
    IN  IF data.settings = Null
        THEN UNCHANGED vars
        ELSE LET newDay ==
                     [id |-> idClock + 1,
                      date |-> getDefaultDayDate(data.days,
                                                 data.settings[1].startDate, today),
                      actualClose |-> Null,
                      noTrade |-> FALSE]
                 saved == [data EXCEPT !.days = Append(@, newDay)]
             IN  /\ idClock < MaxIds
                 /\ newDay.date \in Calendar
                 /\ idClock' = idClock + 1
                 /\ storage' = saveData(saved)
                 /\ rendered' = saved

\* updateDay(id, update) with a one-field update.  The assignment
\* day.actualClose = day.actualClose ?? null of a no-trade day keeps a close
\* that is a number or null.
updateDay(id, field, value) ==
    LET data == trackerLoadData(storage)
        k == findIndexById(data.days, id)
    IN  IF k = 0
        THEN UNCHANGED vars
        ELSE LET saved == [data EXCEPT !.days[k][field] = value]
             IN  /\ storage' = saveData(saved)
                 /\ rendered' = saved
                 /\ UNCHANGED idClock

\* history row, dateInput "change"
RowChangeDate(i, value) ==
    /\ rendered.settings # Null
    /\ i \in 1..Len(rendered.days)
    /\ updateDay(rendered.days[i].id, "date", value)

\* history row, actualInput "change" (disabled on a no-trade day)
RowChangeActual(i, input) ==
    /\ rendered.settings # Null
    /\ i \in 1..Len(rendered.days)
    /\ ~rendered.days[i].noTrade
    /\ updateDay(rendered.days[i].id, "actualClose", parseClose(input))

\* history row, toggle "change"
RowToggleNoTrade(i) ==
    /\ rendered.settings # Null
    /\ i \in 1..Len(rendered.days)
    /\ updateDay(rendered.days[i].id, "noTrade", ~rendered.days[i].noTrade)

\* removeDay(id), from the "Remove" button of a history row
removeDay(id) ==
    LET data == trackerLoadData(storage)
        saved == [data EXCEPT !.days = filterOutId(@, id)]
    IN  /\ storage' = saveData(saved)
        /\ rendered' = saved
        /\ UNCHANGED idClock

RowRemove(i) ==
    /\ rendered.settings # Null
    /\ i \in 1..Len(rendered.days)
    /\ removeDay(rendered.days[i].id)

\* data.days.splice(index, 1)[0] followed by data.days.push(day)
moveToEnd(list, index) ==
    Append(SubSeq(list, 1, index - 1) \o SubSeq(list, index + 1, Len(list)),
           list[index])

\* setCurrentDay(dayId), from the "Cashflow" button of a history row
setCurrentDay(dayId) ==
    LET data == trackerLoadData(storage)
        index == findIndexById(data.days, dayId)
    IN  IF index = 0
        THEN UNCHANGED vars
        ELSE LET saved == [data EXCEPT !.days = moveToEnd(@, index)]
             IN  /\ storage' = saveData(saved)
                 /\ rendered' = saved
                 /\ UNCHANGED idClock

RowCashflow(i) ==
    /\ rendered.settings # Null
    /\ i \in 1..Len(rendered.days)
    /\ setCurrentDay(rendered.days[i].id)

\* "Save Cashflow" on the card of the current day: nothing happens unless the
\* amount is a finite number above 0; otherwise addCashflow(date, payload)
SaveCashflow(type, amountIn) ==
    /\ rendered.settings # Null
    /\ Len(rendered.days) >= 1
    /\ IF amountIn = <<>> \/ amountIn[1] <= 0
       THEN UNCHANGED vars
       ELSE LET data == trackerLoadData(storage)
                flow == [id |-> idClock + 1,
                         date |-> rendered.days[Len(rendered.days)].date,
                         type |-> type, amount |-> amountIn[1]]
                saved == [data EXCEPT !.cashflows = Append(@, flow)]
            IN  /\ idClock < MaxIds
                /\ idClock' = idClock + 1
                /\ storage' = saveData(saved)
                /\ rendered' = saved

NextTracker ==
    \/ \E c \in TCapitalInputs, p \in TPctInputs, s \in StartDateInputs,
          g \in GoalInputs : TrackerSetupSubmit(c, p, s, g)
    \/ TrackerResetAll
    \/ \E today \in Todays : TrackerAddDay(today)
    \/ \E i \in 1..MaxIds, v \in TDateInputs : RowChangeDate(i, v)
    \/ \E i \in 1..MaxIds, v \in TCloseInputs : RowChangeActual(i, v)
    \/ \E i \in 1..MaxIds : RowToggleNoTrade(i)
    \/ \E i \in 1..MaxIds : RowRemove(i)
    \/ \E i \in 1..MaxIds : RowCashflow(i)
    \/ \E t \in FlowTypeInputs, a \in TAmountInputs : SaveCashflow(t, a)

SpecTracker == TrackerInit /\ [][NextTracker]_vars

----------------------------------------------------------------------------
(* What the claims read: the persisted snapshot and its derivation *)

persisted == loadData(storage)
metricsNow == buildMetrics(persisted)

daysNow == persisted.days
startingCapitalNow == persisted.settings[1].startingCapital

isPendingDay(day) == ~day.noTrade /\ day.actualClose = Null
isTradedDay(day) == ~day.noTrade /\ day.actualClose # Null

----------------------------------------------------------------------------
(* C1.  targetStart of day 1 is settings.startingCapital; targetStart of    *)
(* day i+1 is day i's actualClose when that is non-null, otherwise day i's  *)
(* targetStart + netCashflow when day i is noTrade, otherwise (pending) day *)
(* i's targetStart.                                                         *)
C1_TargetStartRolls ==
    LET m == metricsNow
        d == daysNow
    IN
        /\ Len(d) >= 1 => m[1].targetStart = startingCapitalNow
        /\ \A i \in 1..(Len(d) - 1) :
              m[i + 1].targetStart =
                  IF d[i].actualClose # Null THEN d[i].actualClose[1]
                  ELSE IF d[i].noTrade
                  THEN m[i].targetStart + m[i].netCashflow
                  ELSE m[i].targetStart

\* a no-trade day without a close and with a cashflow on its date, followed by
\* a day that starts from the rolled base
C1_Witness ==
    LET m == metricsNow
        d == daysNow
    IN
        \E i \in 1..(Len(d) - 1) :
            /\ d[i].noTrade
            /\ d[i].actualClose = Null
            /\ m[i].netCashflow # 0
            /\ m[i + 1].targetStart =
                   m[i].targetStart + m[i].netCashflow

(* C2 as stated.  Every noTrade day is "neutral" with tradingChange 0, and  *)
(* the following day's targetStart is this day's targetStart + netCashflow, *)
(* also when an actualClose is stored on the day.                           *)
C2_NoTradeOverridesClose ==
    LET m == metricsNow
        d == daysNow
    IN
        \A i \in 1..Len(d) :
            d[i].noTrade =>
                /\ m[i].status = "neutral"
                /\ m[i].tradingChange = Some(0)
                /\ i < Len(d) =>
                      m[i + 1].targetStart =
                          m[i].targetStart + m[i].netCashflow

(* C2, amended.  Every noTrade day is "neutral" with tradingChange 0 and    *)
(* tradingPct 0, whatever close is stored on it; the following day's        *)
(* targetStart is the stored actualClose when there is one, and this day's  *)
(* targetStart + netCashflow only when actualClose is null.                 *)
C2_NoTradeNeutral ==
    LET m == metricsNow
        d == daysNow
    IN
        \A i \in 1..Len(d) :
            d[i].noTrade =>
                /\ m[i].status = "neutral"
                /\ m[i].tradingChange = Some(0)
                /\ m[i].tradingPct = Some(FromInt(0))
                /\ i < Len(d) =>
                      m[i + 1].targetStart =
                          IF d[i].actualClose = Null
                          THEN m[i].targetStart + m[i].netCashflow
                          ELSE d[i].actualClose[1]

\* a close was recorded, then No Trade was toggled: the stored close differs
\* from targetStart + netCashflow and another day follows
C2_Witness ==
    LET m == metricsNow
        d == daysNow
    IN
        \E i \in 1..(Len(d) - 1) :
            /\ d[i].noTrade
            /\ d[i].actualClose # Null
            /\ d[i].actualClose[1] #
                   m[i].targetStart + m[i].netCashflow
            /\ m[i].status = "neutral"

(* C3.  A pending day (noTrade false, actualClose null) has status          *)
(* "pending" and null tradingChange and tradingPct, and the day after any   *)
(* run of consecutive pending days has the targetStart of the run's first   *)
(* day.                                                                     *)
C3_PendingKeepsBase ==
    LET m == metricsNow
        d == daysNow
    IN
        \A i \in 1..Len(d) :
            isPendingDay(d[i]) =>
                /\ m[i].status = "pending"
                /\ m[i].tradingChange = Null
                /\ m[i].tradingPct = Null
                /\ \A j \in (i + 1)..Len(d) :
                      (\A k \in i..(j - 1) : isPendingDay(d[k])) =>
                          m[j].targetStart = m[i].targetStart

\* a pending day with a cashflow on its date, followed by a day
C3_Witness ==
    LET m == metricsNow
        d == daysNow
    IN
        \E i \in 1..(Len(d) - 1) :
            /\ isPendingDay(d[i])
            /\ m[i].netCashflow # 0
            /\ m[i + 1].targetStart = m[i].targetStart

(* C4 as stated.  For every day, status is "goal" if and only if            *)
(* tradingChange >= targetGain.                                             *)
C4_GoalIffAllDays ==
    LET m == metricsNow
        d == daysNow
    IN
        \A i \in 1..Len(d) :
            m[i].status = "goal" <=>
                /\ m[i].tradingChange # Null
                /\ FracGeq(FromInt(m[i].tradingChange[1]),
                           m[i].targetGain)

(* C4, amended.  For every day that is not a no-trade day, status is "goal" *)
(* if and only if tradingChange is non-null and >= targetGain; a no-trade   *)
(* day is never "goal", also when its tradingChange 0 is >= targetGain.     *)
C4_GoalIffTraded ==
    LET m == metricsNow
        d == daysNow
    IN
        \A i \in 1..Len(d) :
            m[i].status = "goal" <=>
                /\ ~d[i].noTrade
                /\ m[i].tradingChange # Null
                /\ FracGeq(FromInt(m[i].tradingChange[1]),
                           m[i].targetGain)

\* under a negative daily target: a no-trade day whose tradingChange 0 is
\* above its targetGain and which is "neutral", a traded day that reaches
\* the goal without a gain, and a pending day
C4_Witness ==
    LET m == metricsNow
        d == daysNow
    IN
        /\ \E i \in 1..Len(d) :
              /\ d[i].noTrade
              /\ m[i].targetGain.num < 0
              /\ m[i].status = "neutral"
        /\ \E i \in 1..Len(d) :
              /\ isTradedDay(d[i])
              /\ m[i].tradingChange[1] <= 0
              /\ m[i].status = "goal"
        /\ \E i \in 1..Len(d) : isPendingDay(d[i])

(* C5.  For a day with noTrade false and a non-null actualClose:            *)
(* tradingChange = actualClose - targetStart - netCashflow, tradingPct is 0 *)
(* whenever targetStart <= 0, and status is goal if tradingChange >=        *)
(* targetGain, else green if tradingChange > 0, else neutral if it is 0,    *)
(* else red.  Every day has exactly one of the five statuses.               *)
C5_TradedDay ==
    LET m == metricsNow
        d == daysNow
    IN
        \A i \in 1..Len(d) :
            /\ m[i].status \in {"goal", "green", "neutral", "red", "pending"}
            /\ isTradedDay(d[i]) =>
                  LET change == d[i].actualClose[1] - m[i].targetStart
                                - m[i].netCashflow
                  IN  /\ m[i].tradingChange = Some(change)
                      /\ m[i].targetStart <= 0 =>
                            m[i].tradingPct = Some(FromInt(0))
                      /\ m[i].status =
                            IF FracGeq(FromInt(change), m[i].targetGain)
                            THEN "goal"
                            ELSE IF change > 0 THEN "green"
                            ELSE IF change = 0 THEN "neutral"
                            ELSE "red"

\* a traded day with a cashflow on its date that ends red, after a traded day
\* with a cashflow that ends green
C5_Witness ==
    LET m == metricsNow
        d == daysNow
    IN
        /\ \E i \in 1..Len(d) :
              /\ isTradedDay(d[i])
              /\ m[i].netCashflow # 0
              /\ m[i].status = "red"
        /\ \E i \in 1..Len(d) :
              /\ isTradedDay(d[i])
              /\ m[i].netCashflow # 0
              /\ m[i].status = "green"

RECURSIVE sumAmountsAt(_, _)
sumAmountsAt(flows, indices) ==
    IF indices = {} THEN 0
    ELSE LET i == CHOOSE i \in indices : TRUE
         IN  flows[i].amount + sumAmountsAt(flows, indices \ {i})

flowsAt(flows, date, type) ==
    {i \in 1..Len(flows) : flows[i].date = date /\ flows[i].type = type}

permuted(flows, p) == [i \in 1..Len(flows) |-> flows[p[i]]]

isHwmScenario ==
    LET m == metricsNow
        d == daysNow
    IN
        /\ persisted.settings # Null
        /\ startingCapitalNow = 10000
        /\ highWaterMark(persisted, m) = 12000
        /\ equity(persisted, m) = 11000
        /\ persisted.withdrawal = [rule |-> "profit_hwm", rate |-> 50, buffer |-> 500]

(* C8.  The withdrawal suggestion is base * rate/100, where base is         *)
(* max(0, equity - startingCapital) for profit_start,                       *)
(* max(0, equity - max(startingCapital, highWaterMark - buffer)) for        *)
(* profit_hwm and max(0, equity - targetGoal) for goal_only.  With          *)
(* startingCapital 10000, highWaterMark 12000, buffer 500, equity 11000 and *)
(* rate 50 under profit_hwm the suggestion is 0.                            *)
C8_Suggestion ==
    LET m == metricsNow
        d == daysNow
    IN
        persisted.settings # Null =>
            LET e == equity(persisted, m)
                h == highWaterMark(persisted, m)
                w == persisted.withdrawal
                expected ==
                    CASE w.rule = "profit_start" -> Max(0, e - startingCapitalNow)
                      [] w.rule = "profit_hwm" ->
                            Max(0, e - Max(startingCapitalNow, h - w.buffer))
                      [] w.rule = "goal_only" ->
                            Max(0, e - persisted.settings[1].targetGoal)
            IN  /\ suggestion(persisted, m) = Frac(expected * w.rate, Hundred)
                /\ isHwmScenario => suggestion(persisted, m) = FromInt(0)

\* the scenario of the claim
C8_Witness ==
    LET m == metricsNow
        d == daysNow
    IN
        /\ isHwmScenario
        /\ suggestion(persisted, m) = FromInt(0)

closedDays == {i \in 1..Len(daysNow) : daysNow[i].actualClose # Null}

(* C9.  Current equity, in the summary and in the withdrawal recommender,   *)
(* is the actualClose of the last day in list order that has one, or        *)
(* startingCapital when no day has one; highWaterMark is the maximum of     *)
(* startingCapital and every non-null actualClose, so highWaterMark >=      *)
(* equity and highWaterMark >= startingCapital.                             *)
C9_EquityAndHighWaterMark ==
    LET m == metricsNow
        d == daysNow
    IN
        persisted.settings # Null =>
            LET e == equity(persisted, m)
                h == highWaterMark(persisted, m)
                values == {startingCapitalNow}
                          \cup {d[i].actualClose[1] : i \in closedDays}
            IN  /\ currentEquity(persisted, m) = e
                /\ closedDays = {} => e = startingCapitalNow
                /\ \A i \in closedDays :
                      (\A j \in closedDays : j <= i) => e = d[i].actualClose[1]
                /\ h \in values
                /\ \A v \in values : h >= v
                /\ h >= e
                /\ h >= startingCapitalNow

\* the last close is below an earlier one, which is the high-water mark
C9_Witness ==
    LET m == metricsNow
        d == daysNow
    IN
        /\ persisted.settings # Null
        /\ Len(d) = 2
        /\ d[1].actualClose = Some(12000)
        /\ d[2].actualClose = Some(11000)
        /\ equity(persisted, m) = 11000
        /\ highWaterMark(persisted, m) = 12000

(* C10 as stated.  profitFactor is infinite if and only if totalLosses = 0  *)
(* and totalGains > 0, and it is 0 if and only if totalGains = 0 and        *)
(* totalLosses = 0.                                                         *)
C10_ProfitFactorIff ==
    LET m == metricsNow
        d == daysNow
    IN
        LET gains == totalGains(m)
            losses == totalLosses(m)
            factor == profitFactor(m)
        IN  /\ factor = POSITIVE_INFINITY <=> (losses = 0 /\ gains > 0)
            /\ factor = FromInt(0) <=> (gains = 0 /\ losses = 0)

(* C10, amended.  profitFactor is infinite if and only if totalLosses = 0   *)
(* and totalGains > 0, and it is 0 if and only if totalGains = 0, whether   *)
(* or not there are losses (0 / totalLosses is 0).                          *)
C10_ProfitFactorZeroIffNoGains ==
    LET m == metricsNow
        d == daysNow
    IN
        LET gains == totalGains(m)
            losses == totalLosses(m)
            factor == profitFactor(m)
        IN  /\ factor = POSITIVE_INFINITY <=> (losses = 0 /\ gains > 0)
            /\ factor = FromInt(0) <=> gains = 0

\* only losing days: the factor is 0 although totalLosses > 0
C10_Witness ==
    LET m == metricsNow
        d == daysNow
    IN
        /\ totalGains(m) = 0
        /\ totalLosses(m) > 0
        /\ profitFactor(m) = FromInt(0)


----------------------------------------------------------------------------
\* the days that count for the win rate, stated from the records
wonDays(m) ==
    {i \in 1..Len(m) : m[i].tradingChange # Null /\ m[i].tradingChange[1] > 0}

doneDays(m) == {i \in 1..Len(m) : m[i].tradingChange # Null}

rateOf(wins, done) ==
    IF done = {} THEN FromInt(0)
    ELSE Frac(Hundred * Cardinality(wins), Cardinality(done))

(* C11 as stated.  winRate = 100 * (days with tradingChange > 0) / (days   *)
(* with non-null tradingChange), 0 when no day is completed; goal and green *)
(* days count as wins, exact-zero and red days only in the denominator,     *)
(* pending days in neither.                                                 *)
C11_GoalDaysAreWins ==
    LET m == metricsNow
    IN  /\ winRate(m) = rateOf(wonDays(m), doneDays(m))
        /\ \A i \in 1..Len(m) :
              /\ m[i].status \in {"goal", "green"} => i \in wonDays(m)
              /\ (m[i].tradingChange = Some(0) \/ m[i].status = "red") =>
                     i \in doneDays(m) \ wonDays(m)
              /\ m[i].status = "pending" => i \notin doneDays(m)

(* C11, amended.  winRate = 100 * (days with tradingChange > 0) / (days    *)
(* with non-null tradingChange), 0 when no day is completed; green days and *)
(* goal days with tradingChange > 0 count as wins; a goal day with          *)
(* tradingChange <= 0 (target gain <= 0), exact-zero days and red days      *)
(* count only in the denominator; pending days count in neither.            *)
C11_WinRate ==
    LET m == metricsNow
    IN  /\ winRate(m) = rateOf(wonDays(m), doneDays(m))
        /\ \A i \in 1..Len(m) :
              /\ m[i].status = "green" => i \in wonDays(m)
              /\ m[i].status = "goal" =>
                     /\ i \in doneDays(m)
                     /\ i \in wonDays(m) <=> m[i].tradingChange[1] > 0
              /\ (m[i].tradingChange = Some(0) \/ m[i].status = "red") =>
                     i \in doneDays(m) \ wonDays(m)
              /\ m[i].status = "pending" => i \notin doneDays(m)

\* a goal day with a gain, a goal day without one and a pending day: one win
\* out of two completed days
C11_Witness ==
    LET m == metricsNow
    IN  /\ \E i \in 1..Len(m) :
              m[i].status = "goal" /\ m[i].tradingChange[1] > 0
        /\ \E i \in 1..Len(m) :
              m[i].status = "goal" /\ m[i].tradingChange[1] <= 0
        /\ \E i \in 1..Len(m) : m[i].status = "pending"
        /\ winRate(m) = FromInt(50)

\* the longest suffix of the records whose statuses are all in the set
longestSuffix(m, statuses) ==
    LET n == Len(m)
        fits(k) == \A j \in (n - k + 1)..n : m[j].status \in statuses
    IN  CHOOSE k \in 0..n : fits(k) /\ \A l \in (k + 1)..n : ~fits(l)

(* C12.  goalStreak is the length of the longest suffix of the metrics in   *)
(* which every day is "goal", greenStreak that of the longest suffix in     *)
(* which every day is "goal" or "green"; goalStreak <= greenStreak <= n,    *)
(* and a trailing pending, neutral or red day makes both 0.                 *)
C12_Streaks ==
    LET m == metricsNow
        n == Len(m)
    IN  /\ goalStreak(m) = longestSuffix(m, {"goal"})
        /\ greenStreak(m) = longestSuffix(m, {"goal", "green"})
        /\ goalStreak(m) <= greenStreak(m)
        /\ greenStreak(m) <= n
        /\ (n > 0 /\ m[n].status \in {"pending", "neutral", "red"}) =>
               (goalStreak(m) = 0 /\ greenStreak(m) = 0)

\* a goal day followed by a green day: the green streak is 2, the goal streak 0
C12_Witness ==
    LET m == metricsNow
    IN  /\ Len(m) = 2
        /\ m[1].status = "goal"
        /\ m[2].status = "green"
        /\ goalStreak(m) = 0
        /\ greenStreak(m) = 2


----------------------------------------------------------------------------
\* the equity curve of the persisted snapshot and every contiguous piece of it
curveNow ==
    IF persisted.settings = Null THEN <<>>
    ELSE equityCurve(persisted, metricsNow)

piecesOf(curve) ==
    {SubSeq(curve, a, b) : a \in 1..(Len(curve) + 1), b \in 0..Len(curve)}

isNonDecreasing(c) == \A i \in 1..(Len(c) - 1) : c[i] <= c[i + 1]

runningPeak(c, i) == CHOOSE v \in {c[j] : j \in 1..i} : \A j \in 1..i : c[j] <= v

maxOfFracs(fs) == CHOOSE f \in fs : \A g \in fs : FracGeq(f, g)

timesHundred(f) == Frac(f.num * Hundred, f.den)

\* (peak - value) / peak as the division gives it: infinite when a fall is
\* divided by a peak of 0
fallOverPeak(peak, value) ==
    IF peak # 0 THEN Frac(peak - value, peak)
    ELSE IF peak - value > 0 THEN POSITIVE_INFINITY
    ELSE FromInt(0)

(* C13 as stated.  computeMaxDrawdown returns 0 for every non-decreasing    *)
(* sequence (the empty one included), and otherwise 100 * the maximum over  *)
(* the positions of (peak - value) / peak, peak being the running maximum.  *)
C13_DrawdownOverPeak ==
    \A c \in piecesOf(curveNow) :
        computeMaxDrawdown(c) =
            IF isNonDecreasing(c) THEN FromInt(0)
            ELSE timesHundred(maxOfFracs(
                     {fallOverPeak(runningPeak(c, i), c[i]) : i \in 1..Len(c)}))

(* C13, amended.  computeMaxDrawdown returns 0 for every non-decreasing     *)
(* sequence (the empty one included), and otherwise 100 * the maximum over  *)
(* the positions of the position's drawdown, which is (peak - value) / peak *)
(* where the running peak is > 0 and 0 where the running peak is <= 0.      *)
C13_DrawdownOverPositivePeak ==
    \A c \in piecesOf(curveNow) :
        computeMaxDrawdown(c) =
            IF isNonDecreasing(c) THEN FromInt(0)
            ELSE timesHundred(maxOfFracs(
                     {IF runningPeak(c, i) > 0
                      THEN Frac(runningPeak(c, i) - c[i], runningPeak(c, i))
                      ELSE FromInt(0) : i \in 1..Len(c)}))

\* the curve falls from a peak of 0, then rises to 12000 and falls by a quarter
C13_Witness ==
    /\ curveNow = <<0, -500, 12000, 9000>>
    /\ computeMaxDrawdown(curveNow) = FromInt(25)
    /\ computeMaxDrawdown(<<0, -500>>) = FromInt(0)

scaled(c, k) == [i \in 1..Len(c) |-> k * c[i]]

----------------------------------------------------------------------------
(* C15.  The summary's target-end figure is the targetEnd of the last day   *)
(* of the metrics, and with settings but no days it is the first day's      *)
(* projected target end, startingCapital * (1 + dailyTargetPct / 100).      *)
C15_SummaryTargetEnd ==
    LET m == metricsNow
    IN  persisted.settings # Null =>
            summaryTargetEnd(persisted, m) =
                IF Len(m) > 0 THEN m[Len(m)].targetEnd
                ELSE Frac(startingCapitalNow
                          * (Hundred + persisted.settings[1].dailyTargetPct),
                          Hundred)


----------------------------------------------------------------------------
(* C16.  When settings are absent, buildMetrics returns the empty sequence  *)
(* whatever days and cashflows the snapshot holds, every summary,           *)
(* target-panel and withdrawal figure is the zero default, and Add Day      *)
(* leaves the persisted snapshot unchanged.                                 *)
C16_NoSettings ==
    /\ [](persisted.settings = Null =>
             /\ buildMetrics(persisted) = <<>>
             /\ summaryFigures(persisted, metricsNow) =
                    [equity |-> 0, targetEnd |-> FromInt(0), targetPct |-> 0,
                     drawdown |-> FromInt(0)]
             /\ targetPanel(persisted, metricsNow) =
                    [day |-> 0, targetStart |-> 0, targetEnd |-> FromInt(0),
                     targetGain |-> FromInt(0)]
             /\ suggestion(persisted, metricsNow) = FromInt(0)
             /\ winRate(metricsNow) = FromInt(0)
             /\ profitFactor(metricsNow) = FromInt(0))
    /\ [][(persisted.settings = Null /\ \E today \in Todays : AddDay(today))
             => storage' = storage]_vars

\* a snapshot without settings that holds days and a cashflow, restored over
\* the snapshot of an earlier setup
C16_Witness ==
    /\ idClock >= 1
    /\ persisted.settings = Null
    /\ Len(persisted.days) = 2
    /\ Len(persisted.cashflows) >= 1
    /\ buildMetrics(persisted) = <<>>

documentFields == {"settings", "days", "cashflows", "withdrawal"}

defaultOf(field) ==
    IF field = "withdrawal"
    THEN [rule |-> "profit_hwm", rate |-> 50, buffer |-> 0]
    ELSE <<>>

notAnObject == {Unparsable, JsonNull, JsonNumber}

(* C17.  loadData never fails: for an absent or unparsable stored value, or *)
(* one that parses to a non-object, it returns the empty default snapshot   *)
(* (settings null, no days, no cashflows, default withdrawal policy); when  *)
(* a parsed object lacks settings, days, cashflows or withdrawal, each      *)
(* missing field individually defaults.                                     *)
C17_LoadDataDefaults ==
    LET loaded == loadData(storage)
    IN  /\ DOMAIN loaded = documentFields
        /\ (storage = <<>> \/ storage[1] \in notAnObject) =>
               \A field \in documentFields : loaded[field] = defaultOf(field)
        /\ (storage # <<>> /\ storage[1] \notin notAnObject) =>
               \A field \in documentFields :
                   loaded[field] =
                       IF field \in DOMAIN storage[1]
                       THEN storage[1][field]
                       ELSE defaultOf(field)

\* a stored object with days but no settings, cashflows or withdrawal policy
C17_Witness ==
    /\ storage # <<>>
    /\ DOMAIN storage[1] = {"days"}
    /\ Len(loadData(storage).days) = 1
    /\ loadData(storage).withdrawal = defaultWithdrawalSettings
    /\ loadData(storage).cashflows = <<>>

(* C18.  Importing a document that does not conform to the TrackerData      *)
(* shape (unparsable text, JSON null, a number) is rejected and leaves the  *)
(* persisted snapshot unchanged.                                            *)
C18_ImportRejected ==
    [][\A file \in notAnObject : ImportFile(file) => storage' = storage]_vars

trackerDays(store) == trackerLoadData(store).days

idsOf(list) == {list[i].id : i \in 1..Len(list)}

\* day a stands before day b in the list
standsBefore(list, a, b) ==
    \E i, j \in 1..Len(list) : i < j /\ list[i].id = a /\ list[j].id = b

(* C20.  Whatever add-day, edit-day, remove-day or cashflow operation is    *)
(* performed, two days that are in the persisted list before and after it   *)
(* keep their relative order: days are only appended, edited in place or    *)
(* removed by id.                                                           *)
C20_OrderKept ==
    [][\A a, b \in idsOf(trackerDays(storage)) \cap idsOf(trackerDays(storage')) :
           standsBefore(trackerDays(storage), a, b)
               => standsBefore(trackerDays(storage'), a, b)]_vars


----------------------------------------------------------------------------
(* The derivations of renderAll, taken together *)

\* everything renderAll computes from the data object it is given
derived(data) ==
    LET metrics == buildMetrics(data)
    IN  [metrics |-> metrics,
         summary |-> summaryFigures(data, metrics),
         panel |-> targetPanel(data, metrics),
         winRate |-> winRate(metrics),
         profitFactor |-> profitFactor(metrics),
         goalStreak |-> goalStreak(metrics),
         greenStreak |-> greenStreak(metrics),
         suggestion |-> suggestion(data, metrics)]

\* faulty variant: buildMetrics writes the equity value of a day without a
\* close back into the entry
dataAfterRender_writesBack(data) ==
    LET metrics == buildMetrics(data)
    IN  IF metrics = <<>> THEN data
        ELSE [data EXCEPT !.days =
                 [i \in 1..Len(data.days) |->
                     [data.days[i] EXCEPT
                         !.actualClose = Some(metrics[i].equityValue)]]]

\* The data object after renderAll(data).  buildMetrics and the render
\* functions assign to no field of data, of a day, of a cashflow or of the
\* withdrawal policy; the metrics hold the day objects themselves (entry) and
\* only read them; lastActual reverses a copy (metrics.slice()).
dataAfterRender(data) == data

C22_CapitalNonNegative ==
    persisted.settings # Null => persisted.settings[1].startingCapital >= 0


----------------------------------------------------------------------------
(* Two tabs on the same storage.  Each tab runs the page of part_000: its   *)
(* handlers run one at a time, each from its first to its last statement,   *)
(* and localStorage is shared.  Under SpecTabs `rendered` holds, for every  *)
(* tab, the data object that tab's last renderAll was given.  No handler of *)
(* this specification removes a cashflow or clears the storage.             *)

Tabs == {"a", "b"}

\* what the user types, under SpecTabs
XCapitalInputs == {<<10000>>}
XPctInputs == {<<10>>}
XAmountInputs == {<<500>>}

InitTabs ==
    /\ storage = <<>>
    /\ rendered = [tab \in Tabs |-> loadData(<<>>)]
    /\ idClock = 0

\* faulty variant: the handler works on the data object of its tab's last render
reread_captured(tab) == rendered[tab]

\* const data = loadData(), the first statement of a handler
reread(tab) == loadData(storage)

\* the handler's tab renders the document it saved
savedAndRendered(tab, saved) ==
    /\ storage' = saveData(saved)
    /\ rendered' = [rendered EXCEPT ![tab] = saved]

\* setupForm "submit" in a tab
TabSetupSubmit(tab, capitalIn, pctIn, startDate, goalIn) ==
    LET data == reread(tab)
        settings == [startingCapital |-> parseNumber(capitalIn),
                     dailyTargetPct |-> parseNumber(pctIn),
                     startDate |-> startDate,
                     targetGoal |-> parseNumber(goalIn)]
        buffer == IF data.withdrawal.buffer = 0
                  THEN tenthOf(settings.startingCapital)
                  ELSE data.withdrawal.buffer
    IN  /\ savedAndRendered(tab, [data EXCEPT !.settings = Some(settings),
                                              !.withdrawal.buffer = buffer])
        /\ UNCHANGED idClock

\* addDayButton "click" in a tab
TabAddDay(tab, today) ==
    LET data == reread(tab)
    IN  IF data.settings = Null
        THEN UNCHANGED vars
        ELSE LET newDay ==
                     [id |-> idClock + 1,
                      date |-> getDefaultDayDate(data.days,
                                                 data.settings[1].startDate, today),
                      actualClose |-> Null,
                      noTrade |-> FALSE]
             IN  /\ idClock < MaxIds
                 /\ newDay.date \in Calendar
                 /\ idClock' = idClock + 1
                 /\ savedAndRendered(tab, [data EXCEPT !.days = Append(@, newDay)])

\* cashflowForm "submit" in a tab
TabCashflowSubmit(tab, date, type, amountIn) ==
    LET data == reread(tab)
        flow == [id |-> idClock + 1, date |-> date, type |-> type,
                 amount |-> parseNumber(amountIn)]
    IN  /\ idClock < MaxIds
        /\ idClock' = idClock + 1
        /\ savedAndRendered(tab, [data EXCEPT !.cashflows = Append(@, flow)])

\* data.days = data.days.filter((day) => day.id !== id)
afterRemoveDay(data, id) == [data EXCEPT !.days = filterOutId(@, id)]

\* "Remove Day" click on the card of day i in a tab: the closure's data object
TabRemoveDay(tab, i) ==
    /\ rendered[tab].settings # Null
    /\ i \in 1..Len(rendered[tab].days)
    /\ savedAndRendered(tab, afterRemoveDay(rendered[tab], rendered[tab].days[i].id))
    /\ UNCHANGED idClock

\* a tab is reloaded, or one of its filter buttons is clicked:
\* renderAll(loadData())
TabReload(tab) ==
    /\ rendered' = [rendered EXCEPT ![tab] = loadData(storage)]
    /\ UNCHANGED <<storage, idClock>>

NextTabs ==
    \E tab \in Tabs :
        \/ \E c \in XCapitalInputs, p \in XPctInputs, d \in StartDateInputs,
              g \in GoalInputs : TabSetupSubmit(tab, c, p, d, g)
        \/ \E today \in Todays : TabAddDay(tab, today)
        \/ \E d \in FlowDateInputs, t \in FlowTypeInputs, a \in XAmountInputs :
               TabCashflowSubmit(tab, d, t, a)
        \/ \E i \in 1..MaxIds : TabRemoveDay(tab, i)
        \/ TabReload(tab)

SpecTabs == InitTabs /\ [][NextTabs]_vars

(* C23.  Every mutation handler computes the snapshot it writes from a      *)
(* snapshot re-read from storage within the handler, never from one         *)
(* captured at an earlier render.  For Remove Day: the document written is  *)
(* the stored document without the removed day.                             *)
C23_WritesFromReload ==
    [][\A tab \in Tabs, i \in 1..MaxIds :
           TabRemoveDay(tab, i) =>
               storage' = saveData(afterRemoveDay(loadData(storage),
                                                  rendered[tab].days[i].id))]_vars


\* the cashflows of a stored document, as a set
flowsOf(data) == {data.cashflows[k] : k \in 1..Len(data.cashflows)}

(* C25.  With two tabs that each read, modify and write the shared          *)
(* document, a cashflow one tab saved is overwritten by the other: a stored *)
(* cashflow leaves the document only in a step in which a tab's Remove     *)
(* Day writes a snapshot captured before that cashflow was saved (no        *)
(* handler here removes cashflows, and C25_Witness is such a loss).         *)
C25_LostUpdate ==
    [][\A flow \in flowsOf(loadData(storage)) \ flowsOf(loadData(storage')) :
           \E tab \in Tabs, i \in 1..MaxIds :
               /\ TabRemoveDay(tab, i)
               /\ flow \notin flowsOf(rendered[tab])]_vars

\* a cashflow that one tab saved and still shows is no longer in the document,
\* although nobody removed it; the other tab has just written its own snapshot
C25_Witness ==
    \E tab, other \in Tabs :
        /\ tab # other
        /\ \E flow \in flowsOf(rendered[tab]) :
              flow \notin flowsOf(loadData(storage))
        /\ rendered[other] = loadData(storage)
        /\ storage # <<>>


\* the per-day metrics on the page: renderAll(data) shows buildMetrics(data)
renderedMetrics == buildMetrics(rendered)

(* C24.  After every mutation handler the rendered per-day metrics are      *)
(* buildMetrics of the snapshot now persisted, so the date, close and       *)
(* no-trade flag stored for a day and the stored cashflows determine the    *)
(* rendered targetStart of the day after it, and through it of every later  *)
(* day.                                                                     *)
C24_RenderedFollowsPersisted ==
    LET shown == renderedMetrics
        d == daysNow
        flows == persisted.cashflows
    IN  /\ shown = metricsNow
        /\ \A i \in 1..(Len(shown) - 1) :
              shown[i + 1].targetStart =
                  IF d[i].actualClose # Null THEN d[i].actualClose[1]
                  ELSE IF d[i].noTrade
                  THEN shown[i].targetStart
                       + getNetCashflowForDate(flows, d[i].date)
                  ELSE shown[i].targetStart

\* the close of the first day, a day with a cashflow, was entered and is shown
\* as the base of the second day
C24_Witness ==
    /\ Len(renderedMetrics) = 2
    /\ daysNow[1].actualClose = Some(11000)
    /\ startingCapitalNow = 10000
    /\ renderedMetrics[1].netCashflow # 0
    /\ renderedMetrics[2].targetStart = 11000


(* C26.  For every day i of every metrics sequence, equityValue of day i is *)
(* the running base after day i, and so the targetStart of day i+1 when     *)
(* that day exists, whether day i is settled, no-trade or pending.          *)
C26_EquityIsNextBase ==
    LET m == metricsNow
        d == daysNow
    IN  \A i \in 1..Len(m) :
            /\ m[i].equityValue =
                   rollRunningStart(d[i], m[i].targetStart, m[i].netCashflow)
            /\ i < Len(m) => m[i].equityValue = m[i + 1].targetStart

\* a pending day with a cashflow on its date, followed by another day
C26_Witness ==
    /\ Len(metricsNow) = 2
    /\ isPendingDay(daysNow[1])
    /\ metricsNow[1].netCashflow # 0
    /\ metricsNow[1].equityValue = startingCapitalNow
    /\ metricsNow[2].targetStart = startingCapitalNow


\* the snapshot with only its first i days
firstDays(data, i) == [data EXCEPT !.days = SubSeq(@, 1, i)]

\* a close the day does not have
otherClose(day) == IF day.actualClose = Null THEN Some(11000) ELSE Null

\* the snapshot with the close and the no-trade flag of day k replaced
withDayEdited(data, k, close, noTrade) ==
    [data EXCEPT !.days[k].actualClose = close, !.days[k].noTrade = noTrade]

(* C27.  Metrics are prefix-stable: the records of days 1..i are those of   *)
(* the snapshot that ends with day i, so they depend only on settings, the  *)
(* cashflows and the entries 1..i; appending a day, or editing or removing  *)
(* a day after position i, leaves them unchanged.                           *)
C27_PrefixStable ==
    LET p == persisted
        m == metricsNow
    IN  /\ \A i \in 0..Len(m) :
              buildMetrics(firstDays(p, i)) = SubSeq(m, 1, i)
        /\ \A k \in 2..Len(m) :
              SubSeq(buildMetrics(withDayEdited(p, k, otherClose(p.days[k]),
                                                ~p.days[k].noTrade)),
                     1, k - 1)
                  = SubSeq(m, 1, k - 1)

\* three days, the last of them with a close that differs from the base the
\* first day starts from
C27_Witness ==
    /\ Len(metricsNow) = 3
    /\ daysNow[3].actualClose = Some(11000)
    /\ metricsNow[1].targetStart = 10000
    /\ buildMetrics(firstDays(persisted, 2)) = SubSeq(metricsNow, 1, 2)


\* how many day entries carry the date
daysDated(days, date) == Cardinality({i \in 1..Len(days) : days[i].date = date})

\* the sum of netCashflow over the first n metrics records
RECURSIVE netCashflowTotal(_, _)
netCashflowTotal(m, n) ==
    IF n = 0 THEN 0 ELSE netCashflowTotal(m, n - 1) + m[n].netCashflow

\* the signed amounts of the first n cashflows, each counted once for every
\* day entry that carries its date
RECURSIVE countedPerDay(_, _, _)
countedPerDay(flows, n, days) ==
    IF n = 0 THEN 0
    ELSE countedPerDay(flows, n - 1, days)
         + daysDated(days, flows[n].date)
           * (IF flows[n].type = "deposit" THEN flows[n].amount
              ELSE -flows[n].amount)

(* C28.  A day's netCashflow is a function of its date alone: two day       *)
(* entries with the same date have the same netCashflow, and over the whole *)
(* sequence every cashflow is counted once for each day entry that carries  *)
(* its date (twice when two days share it, not at all when no day does).    *)
C28_NetCashflowByDate ==
    LET m == metricsNow
        d == daysNow
        flows == persisted.cashflows
    IN  /\ \A i, j \in 1..Len(m) :
              d[i].date = d[j].date => m[i].netCashflow = m[j].netCashflow
        /\ \A i \in 1..Len(m) :
              (\A k \in 1..Len(flows) : flows[k].date # d[i].date)
                  => m[i].netCashflow = 0
        /\ netCashflowTotal(m, Len(m)) = countedPerDay(flows, Len(flows), d)

\* two day entries share the date of the one cashflow, which is counted in both
C28_Witness ==
    /\ Len(metricsNow) = 2
    /\ daysNow[1].date = daysNow[2].date
    /\ Len(persisted.cashflows) = 1
    /\ persisted.cashflows[1].date = daysNow[1].date
    /\ metricsNow[1].netCashflow = metricsNow[2].netCashflow
    /\ netCashflowTotal(metricsNow, 2) = 2 * metricsNow[1].netCashflow
    /\ metricsNow[1].netCashflow # 0


\* buffers a withdrawal policy may hold besides the stored one
Buffers == {-500, 0, 500, 2000}

\* the base the profit_hwm rule gives the snapshot when its buffer is b
hwmBase(data, metrics, b) ==
    withdrawalBase("profit_hwm", equity(data, metrics),
                   data.settings[1].startingCapital, highWaterMark(data, metrics),
                   b, data.settings[1].targetGoal)

C30_SetupKeepsBuffer ==
    [][\A c \in WCapitalInputs, p \in WPctInputs, d \in StartDateInputs,
          g \in WGoalInputs :
           SetupSubmit(c, p, d, g) =>
               LET old == loadData(storage).withdrawal.buffer
                   new == loadData(storage').withdrawal.buffer
               IN  /\ old # 0 => new = old
                   /\ old = 0 => 10 * new = parseNumber(c)
                   /\ old = 0 /\ parseNumber(c) # 0 => new # 0]_vars

\* the policy was saved with rule goal_only and buffer 0, and a later
\* submission with starting capital 10000 made the buffer 1000
C30_Witness ==
    /\ persisted.settings # Null
    /\ startingCapitalNow = 10000
    /\ persisted.withdrawal.rule = "goal_only"
    /\ persisted.withdrawal.buffer = 1000

====
